---------------------------- MODULE Spec2Model ----------------------------
(***************************************************************************)
(* Model of the OpenShift warning-event watcher that forwards novel events *)
(* to a Slack webhook.  Two builds of the program are modelled:            *)
(*   "reducer"  src/unnamed/part_000  caches buildCachedEvent(event)       *)
(*   "message"  src/main.go           caches event.Message                 *)
(* Strings are sequences of one-character strings, so that the string      *)
(* functions of the fingerprint reduction are computed, not assumed.       *)
(* Time is counted in ticks of 5 seconds.                                  *)
(***************************************************************************)
EXTENDS Integers, Sequences, FiniteSets, TLC

-----------------------------------------------------------------------------
(* Bounds of the model *)

\* times the clock is seen to advance over the life of the process
MaxTicks == 2
\* items delivered by the feed over the life of the process
MaxItems == 3

-----------------------------------------------------------------------------
(* Program constants, in ticks of 5 seconds *)

\* cache.New(1*time.Minute, ...): default expiration of the cache
DefaultExpiration == 12
\* time.Sleep(5 * time.Second) in the retry driver of main
SleepTicks == 1

-----------------------------------------------------------------------------
(* String literals *)

\* "ns1"
NsOne ==
    <<"n","s","1">>
\* "ns2"
NsTwo ==
    <<"n","s","2">>
\* "app-abc123"
NameAppA ==
    <<"a","p","p","-","a","b","c","1","2","3">>
\* "app-xyz789"
NameAppB ==
    <<"a","p","p","-","x","y","z","7","8","9">>
\* "payments-api-7d8f9c-xk2pq"
NamePayments ==
    <<"p","a","y","m","e","n","t","s","-","a","p","i","-","7","d","8","f",
      "9","c","-","x","k","2","p","q">>
\* "CrashLoopBackOff"
MsgCrash ==
    <<"C","r","a","s","h","L","o","o","p","B","a","c","k","O","f","f">>
\* "Readiness probe failed: Get http://10.1.2.3:8080/healthz: dial tcp: timeout"
MsgReadyA ==
    <<"R","e","a","d","i","n","e","s","s"," ","p","r","o","b","e"," ","f",
      "a","i","l","e","d",":"," ","G","e","t"," ","h","t","t","p",":","/",
      "/","1","0",".","1",".","2",".","3",":","8","0","8","0","/","h","e",
      "a","l","t","h","z",":"," ","d","i","a","l"," ","t","c","p",":"," ",
      "t","i","m","e","o","u","t">>
\* "Readiness probe failed: Get http://10.9.9.9:9090/healthz: connection refused"
MsgReadyB ==
    <<"R","e","a","d","i","n","e","s","s"," ","p","r","o","b","e"," ","f",
      "a","i","l","e","d",":"," ","G","e","t"," ","h","t","t","p",":","/",
      "/","1","0",".","9",".","9",".","9",":","9","0","9","0","/","h","e",
      "a","l","t","h","z",":"," ","c","o","n","n","e","c","t","i","o","n",
      " ","r","e","f","u","s","e","d">>
\* "Readiness"
ReadinessPrefix ==
    <<"R","e","a","d","i","n","e","s","s">>
\* "Liveness"
LivenessPrefix ==
    <<"L","i","v","e","n","e","s","s">>
\* ": Get http://10."
GetMarker ==
    <<":"," ","G","e","t"," ","h","t","t","p",":","/","/","1","0",".">>
\* "-"
Hyphen ==
    <<"-">>
\* " "
Space ==
    <<" ">>
\* "_"
Underscore ==
    <<"_">>

-----------------------------------------------------------------------------
(* strings package, as used by buildCachedEvent *)

\* strings.HasPrefix(s, prefix)
HasPrefix(s, prefix) ==
    /\ Len(s) >= Len(prefix)
    /\ SubSeq(s, 1, Len(prefix)) = prefix

\* strings.Index(s, sep): position of the first occurrence of sep, 0 if none
Index(s, sep) ==
    LET hits == {i \in 1..(Len(s) - Len(sep) + 1) :
                    SubSeq(s, i, i + Len(sep) - 1) = sep}
    IN  IF hits = {} THEN 0
        ELSE CHOOSE i \in hits : \A j \in hits : i <= j

\* strings.Split(s, sep) for a non-empty sep: the pieces between occurrences,
\* the whole string as the only piece when sep does not occur
RECURSIVE Split(_, _)
Split(s, sep) ==
    LET i == Index(s, sep)
    IN  IF i = 0 THEN <<s>>
        ELSE <<SubSeq(s, 1, i - 1)>>
                \o Split(SubSeq(s, i + Len(sep), Len(s)), sep)

\* strings.Join(elems, sep)
RECURSIVE Join(_, _)
Join(elems, sep) ==
    IF Len(elems) = 0 THEN <<>>
    ELSE IF Len(elems) = 1 THEN elems[1]
    ELSE elems[1] \o sep \o Join(Tail(elems), sep)

\* strings.Replace(s, old, new, -1) for a non-empty old: every
\* non-overlapping occurrence replaced, left to right
RECURSIVE Replace(_, _, _)
Replace(s, old, new) ==
    LET i == Index(s, old)
    IN  IF i = 0 THEN s
        ELSE SubSeq(s, 1, i - 1) \o new
                \o Replace(SubSeq(s, i + Len(old), Len(s)), old, new)

-----------------------------------------------------------------------------
(* Events *)

\* the fields of v1.Event the program reads, FirstTimestamp apart
Event(namespace, name, message) ==
    [Namespace |-> namespace, Name |-> name, Message |-> message]

\* events the feed delivers: a crash of two pods of one workload and of
\* another workload in another namespace, and two probe failures of one
\* workload that differ after the marker
EventShapes ==
    {Event(NsOne, NameAppA, MsgCrash), Event(NsOne, NameAppB, MsgCrash),
     Event(NsTwo, NamePayments, MsgCrash),
     Event(NsOne, NameAppA, MsgReadyA), Event(NsOne, NameAppB, MsgReadyB)}

\* buildCachedEvent keeping the whole subject name instead of s[0]
buildCachedEvent_WholeName(event) ==
    LET msg ==
            IF HasPrefix(event.Message, ReadinessPrefix)
                  \/ HasPrefix(event.Message, LivenessPrefix)
            THEN Replace(Split(event.Message, GetMarker)[1], Space,
                         Underscore)
            ELSE event.Message
    IN  Join(<<event.Namespace, event.Name, msg>>, Underscore)

\* buildCachedEvent without the special case of lines 153-157
buildCachedEvent_NoTruncation(event) ==
    Join(<<event.Namespace, Split(event.Name, Hyphen)[1], event.Message>>,
         Underscore)

\* buildCachedEvent: namespace, first hyphen segment of the name, and the
\* message, cut before ": Get http://10." with spaces made underscores when it
\* starts with Readiness or Liveness; joined with "_"
buildCachedEvent(event) ==
    LET msgc1 == <<event.Namespace>>
        s == Split(event.Name, Hyphen)
        msgc2 == Append(msgc1, s[1])
        msgc3 ==
            IF HasPrefix(event.Message, ReadinessPrefix)
                  \/ HasPrefix(event.Message, LivenessPrefix)
            THEN LET s2 == Split(event.Message, GetMarker)
                 IN  Append(msgc2, Replace(s2[1], Space, Underscore))
            ELSE Append(msgc2, event.Message)
    IN  Join(msgc3, Underscore)

\* the value a build stores in the cache for an event: part_000 stores
\* buildCachedEvent(event) (lines 111, 119), main.go stores event.Message
\* (lines 110, 121)
CachedValue(b, event) ==
    IF b = "reducer" THEN buildCachedEvent(event) ELSE event.Message

\* placeholder of an event field that holds no event
NoEvent == [Namespace |-> <<>>, Name |-> <<>>, Message |-> <<>>]

-----------------------------------------------------------------------------
(* The cache: github.com/patrickmn/go-cache, one key "last_slack_event" *)
(* The janitor started by cache.New(..., 2*time.Minute) deletes only items   *)
(* that Get already reports absent, so it is not a step of the model.      *)

\* the key is absent from the cache's map
NoItem == [present |-> FALSE, Object |-> <<>>, Expiration |-> 0]

\* an item taken for expired already at its expiration time
Expired_AtDeadline(item, t) ==
    /\ item.Expiration > 0
    /\ t >= item.Expiration

\* an item is expired when it has an expiration and the clock is past it
Expired(item, t) ==
    /\ item.Expiration > 0
    /\ t > item.Expiration

\* cachesvr.Get("last_slack_event") at time t: the value and whether found
CacheGet(item, t) ==
    IF item.present /\ ~Expired(item, t)
    THEN [found |-> TRUE, value |-> item.Object]
    ELSE [found |-> FALSE, value |-> <<>>]

\* cachesvr.Set("last_slack_event", v, d) at time t: d = 0 asks for the
\* default expiration, a negative d for none
CacheSet(v, d, t) ==
    LET dd == IF d = 0 THEN DefaultExpiration ELSE d
    IN  [present |-> TRUE, Object |-> v,
         Expiration |-> IF dd > 0 THEN t + dd ELSE 0]

\* a write that asks for no expiration (cache.NoExpiration) instead of 0
SetLastSlackEvent_NoExpiration(v, t) ==
    CacheSet(v, -1, t)

\* the program's only write: cachesvr.Set("last_slack_event", v, 0)
SetLastSlackEvent(v, t) ==
    CacheSet(v, 0, t)

-----------------------------------------------------------------------------
(* State *)

VARIABLES
    build,          \* which source file was built: "reducer" or "message"
    webhookUrl,     \* SLACK_WEBHOOK_URL: "wellformed" or "malformed"
    now,            \* the wall clock, in ticks
    ticks,          \* times the clock has advanced
    pc,             \* where the watch goroutine is
    crash,          \* the panic that ended the process, "none" if none
    startTime,      \* startTime of the running (or last) watchEvents call
    wakeAt,         \* when the driver's sleep is over
    cache,          \* the item under "last_slack_event"
    cur,            \* the event being notified while pc = "Notifying"
    delivered,      \* items the feed has delivered so far
    last,           \* history: what happened to the item delivered last
    lastNotified,   \* history: the event passed to notifySlack last
    notifications,  \* history: calls of notifySlack so far
    lastSet,        \* history: time and value of the last cache write
    closedAt        \* history: when the channel was last closed

vars == <<build, webhookUrl, now, ticks, pc, crash, startTime, wakeAt, cache,
          cur, delivered, last, lastNotified, notifications, lastSet,
          closedAt>>

\* at, value: when and what was written; post: the outcome of the POST of
\* the notification the write followed
NoSet == [at |-> -1, value |-> <<>>, post |-> "none"]

\* kind: "none", "event" or "other"; ev, ts: the event and its
\* FirstTimestamp; start: startTime of the attempt that delivered it; read,
\* found, got: the cache was read, and its answer;
\* reduced: buildCachedEvent was called; invoked: notifySlack was called;
\* posts, post: POST attempts and the outcome; wrote: the cache was written;
\* again: the event's value is the one the item before it found in the cache
NoLast ==
    [kind |-> "none", ev |-> NoEvent, ts |-> -1, start |-> -1,
     read |-> FALSE, found |-> FALSE, got |-> <<>>,
     reduced |-> FALSE, invoked |-> FALSE, posts |-> 0, post |-> "none",
     wrote |-> FALSE, again |-> FALSE]

Builds == {"reducer", "message"}

InitCommon ==
    /\ webhookUrl \in {"wellformed", "malformed"}
    /\ now = 0
    /\ ticks = 0
    /\ pc = "Subscribing"
    /\ crash = "none"
    /\ startTime = -1
    /\ wakeAt = -1
    /\ cache = NoItem
    /\ cur = NoEvent
    /\ delivered = 0
    /\ last = NoLast
    /\ lastNotified = NoEvent
    /\ notifications = 0
    /\ lastSet = NoSet
    /\ closedAt = -1

\* the program of src/unnamed/part_000
Init ==
    /\ build = "reducer"
    /\ InitCommon

\* either program
InitBuilds ==
    /\ build \in Builds
    /\ InitCommon

-----------------------------------------------------------------------------
(* watchEvents *)

\* !t.Before(u) in place of t.After(u)
After_NotBefore(t, u) == t >= u

\* t.After(u)
After(t, u) == t > u

\* only the branch of line 106, the comparison of line 122 left out
ShouldNotify_OnlyWhenAbsent(found, cachedMessage, currentMessage) ==
    ~found

\* the decision of lines 106 and 122: notify when nothing was found or the
\* cached value differs from the current one
ShouldNotify(found, cachedMessage, currentMessage) ==
    \/ ~found
    \/ cachedMessage # currentMessage

\* a hit that writes the cached value again, restarting its expiration
OnIdentical_Refresh(item) == SetLastSlackEvent(item.Object, now)

\* lines 130-132: the events are identical, nothing is sent and the cache
\* item stays as it is
OnIdentical(item) == item

\* FirstTimestamp of a delivered event: just before, at, or just after the
\* start of the attempt
Timestamps(start) == {t \in {start - 1, start, start + 1} : t >= 0}

\* a watchEvents that starts each attempt with an empty cache
Subscribe_FreshCache ==
    /\ pc = "Subscribing"
    /\ startTime' = now
    /\ cache' = NoItem
    /\ \E ok \in BOOLEAN :
          IF ok
          THEN pc' = "Streaming" /\ crash' = crash
          ELSE pc' = "Crashed" /\ crash' = "watch-open"
    /\ UNCHANGED <<build, webhookUrl, now, ticks, wakeAt, cur, delivered,
                   last, lastNotified, notifications, lastSet, closedAt>>

\* lines 92-98: record the start time, open the watch; an error panics
Subscribe ==
    /\ pc = "Subscribing"
    /\ startTime' = now
    /\ \E ok \in BOOLEAN :
          IF ok
          THEN pc' = "Streaming" /\ crash' = crash
          ELSE pc' = "Crashed" /\ crash' = "watch-open"
    /\ UNCHANGED <<build, webhookUrl, now, ticks, wakeAt, cache, cur, delivered,
                   last, lastNotified, notifications, lastSet, closedAt>>

\* line 101 on an item that is no *v1.Event: the type assertion panics
ReceiveOther ==
    /\ pc = "Streaming"
    /\ delivered < MaxItems
    /\ delivered' = delivered + 1
    /\ last' = [NoLast EXCEPT !.kind = "other", !.start = startTime]
    /\ pc' = "Crashed"
    /\ crash' = "not-an-event"
    /\ UNCHANGED <<build, webhookUrl, now, ticks, startTime, wakeAt, cache, cur,
                   lastNotified, notifications, lastSet, closedAt>>

\* lines 100-134 up to the call of notifySlack, for one event
ReceiveEvent ==
    /\ pc = "Streaming"
    /\ delivered < MaxItems
    /\ \E event \in EventShapes, ts \in Timestamps(startTime) :
          LET base == [NoLast EXCEPT !.kind = "event", !.ev = event,
                                     !.ts = ts, !.start = startTime]
              got == CacheGet(cache, now)
              read == [base EXCEPT
                          !.read = TRUE, !.found = got.found,
                          !.got = got.value,
                          !.again = /\ last.found
                                    /\ last.got = CachedValue(build, event)]
              \* part_000 reduces before the comparison when a value was
              \* found (line 119), after notifySlack otherwise (line 111)
              reduces == build = "reducer" /\ got.found
              notify == ShouldNotify(got.found, got.value,
                                     CachedValue(build, event))
          IN  IF ~After(ts, startTime)
              THEN /\ last' = base
                   /\ UNCHANGED <<pc, cur, lastNotified, notifications,
                                  cache>>
              ELSE IF notify
              THEN /\ last' = [read EXCEPT !.reduced = reduces,
                                           !.invoked = TRUE]
                   /\ pc' = "Notifying"
                   /\ cur' = event
                   /\ lastNotified' = event
                   /\ notifications' = notifications + 1
                   /\ cache' = cache
              ELSE /\ last' = [read EXCEPT !.reduced = reduces]
                   /\ cache' = OnIdentical(cache)
                   /\ UNCHANGED <<pc, cur, lastNotified, notifications>>
    /\ delivered' = delivered + 1
    /\ UNCHANGED <<build, webhookUrl, now, ticks, crash, startTime, wakeAt,
                   lastSet, closedAt>>

\* a notification whose cache write is skipped when the POST fails
NotifyReturn_SkipCacheOnPostError ==
    /\ pc = "Notifying"
    /\ IF webhookUrl = "malformed"
       THEN /\ pc' = "Crashed"
            /\ crash' = "nil-request"
            /\ last' = [last EXCEPT !.post = "unbuilt"]
            /\ UNCHANGED <<cache, lastSet, cur>>
       ELSE /\ \E sent \in BOOLEAN :
                  /\ last' = [last EXCEPT
                                 !.posts = @ + 1,
                                 !.post = IF sent THEN "ok" ELSE "failed",
                                 !.reduced = (build = "reducer"),
                                 !.wrote = sent]
                  /\ IF sent
                     THEN /\ lastSet' =
                                [at |-> now,
                                 value |-> CachedValue(build, cur),
                                 post |-> "ok"]
                          /\ cache' =
                                SetLastSlackEvent(CachedValue(build, cur),
                                                  now)
                     ELSE UNCHANGED <<cache, lastSet>>
            /\ cur' = NoEvent
            /\ pc' = "Streaming"
            /\ crash' = crash
    /\ UNCHANGED <<build, webhookUrl, now, ticks, startTime, wakeAt,
                   delivered, lastNotified, notifications, closedAt>>

\* notifySlack (lines 52-89) and the cache write after it (lines 111-112,
\* 128): with a URL that http.NewRequest rejects req is nil and line 84
\* panics; otherwise one POST, whose error is only printed, then the Set
NotifyReturn ==
    /\ pc = "Notifying"
    /\ IF webhookUrl = "malformed"
       THEN /\ pc' = "Crashed"
            /\ crash' = "nil-request"
            /\ last' = [last EXCEPT !.post = "unbuilt"]
            /\ UNCHANGED <<cache, lastSet, cur>>
       ELSE /\ \E sent \in BOOLEAN :
                  /\ last' = [last EXCEPT
                                 !.posts = @ + 1,
                                 !.post = IF sent THEN "ok" ELSE "failed",
                                 !.reduced = (build = "reducer"),
                                 !.wrote = TRUE]
                  /\ lastSet' = [at |-> now,
                                 value |-> CachedValue(build, cur),
                                 post |-> IF sent THEN "ok" ELSE "failed"]
            /\ cache' = SetLastSlackEvent(CachedValue(build, cur), now)
            /\ cur' = NoEvent
            /\ pc' = "Streaming"
            /\ crash' = crash
    /\ UNCHANGED <<build, webhookUrl, now, ticks, startTime, wakeAt,
                   delivered, lastNotified, notifications,
                   closedAt>>

\* the channel is closed: the range loop ends, watchEvents returns and the
\* driver sleeps (line 183)
Close ==
    /\ pc = "Streaming"
    /\ ticks < MaxTicks
    /\ pc' = "Closed"
    /\ wakeAt' = now + SleepTicks
    /\ closedAt' = now
    /\ UNCHANGED <<build, webhookUrl, now, ticks, crash, startTime, cache, cur,
                   delivered, last, lastNotified, notifications, lastSet>>

\* the driver without the sleep of line 183
Wake_NoSleep ==
    /\ pc = "Closed"
    /\ pc' = "Subscribing"
    /\ UNCHANGED <<build, webhookUrl, now, ticks, crash, startTime, wakeAt,
                   cache, cur, delivered, last, lastNotified, notifications,
                   lastSet, closedAt>>

\* the sleep is over: the driver calls watchEvents again (lines 181-182)
Wake ==
    /\ pc = "Closed"
    /\ now >= wakeAt
    /\ pc' = "Subscribing"
    /\ UNCHANGED <<build, webhookUrl, now, ticks, crash, startTime, wakeAt,
                   cache, cur, delivered, last, lastNotified, notifications,
                   lastSet, closedAt>>

\* how far the clock advances between two steps of the program: by the
\* driver's sleep or by the cache's expiration
TickSteps == {SleepTicks, DefaultExpiration}

\* time passes while the goroutine waits: for the next item, in the POST, in
\* the sleep
Tick ==
    /\ pc \in {"Streaming", "Notifying", "Closed"}
    /\ ticks < MaxTicks
    /\ \E d \in TickSteps : now' = now + d
    /\ ticks' = ticks + 1
    /\ UNCHANGED <<build, webhookUrl, pc, crash, startTime, wakeAt, cache,
                   cur, delivered, last, lastNotified, notifications,
                   lastSet, closedAt>>

Next ==
    \/ Subscribe
    \/ ReceiveOther
    \/ ReceiveEvent
    \/ NotifyReturn
    \/ Close
    \/ Wake
    \/ Tick

Spec == Init /\ [][Next]_vars

SpecBuilds == InitBuilds /\ [][Next]_vars

TypeOK ==
    /\ build \in Builds
    /\ now \in 0..(MaxTicks * DefaultExpiration)
    /\ ticks \in 0..MaxTicks
    /\ pc \in {"Subscribing", "Streaming", "Notifying", "Closed", "Crashed"}
    /\ (pc = "Crashed") = (crash # "none")

-----------------------------------------------------------------------------
(* Vocabulary of the properties *)

\* this step delivers an item: last is the item before it, last' the item
NextItem == delivered' = delivered + 1

\* the item is an event whose FirstTimestamp is strictly after the start time
\* of the attempt that delivered it
PassedFilter(l) ==
    /\ l.kind = "event"
    /\ l.ts > l.start

\* the item is an event whose FirstTimestamp is earlier than or equal to the
\* start time of the attempt that delivered it
Stale(l) ==
    /\ l.kind = "event"
    /\ l.ts <= l.start

\* first hyphen segment of a subject name
FirstSegment(name) ==
    LET i == Index(name, Hyphen)
    IN  IF i = 0 THEN name ELSE SubSeq(name, 1, i - 1)

IsHealthCheck(message) ==
    \/ HasPrefix(message, ReadinessPrefix)
    \/ HasPrefix(message, LivenessPrefix)

\* the part of a message before the marker, the message when it has none
BeforeMarker(message) ==
    LET i == Index(message, GetMarker)
    IN  IF i = 0 THEN message ELSE SubSeq(message, 1, i - 1)

\* two events of one condition: same namespace, same first segment of the
\* subject name, same message or health-check messages equal up to the marker
SameCondition(e1, e2) ==
    /\ e1.Namespace = e2.Namespace
    /\ FirstSegment(e1.Name) = FirstSegment(e2.Name)
    /\ \/ e1.Message = e2.Message
       \/ /\ IsHealthCheck(e1.Message)
          /\ IsHealthCheck(e2.Message)
          /\ BeforeMarker(e1.Message) = BeforeMarker(e2.Message)

\* the cache item is present and not expired at time t
Live(item, t) ==
    /\ item.present
    /\ ~(item.Expiration > 0 /\ t > item.Expiration)

-----------------------------------------------------------------------------
(* Properties *)

\* C1 - dedup collapse: when two events delivered one after the other both
\* pass the start-time filter and are of one condition, and the cache item
\* written for the first is still live when the second is handled, notifySlack
\* was called for the first and is not called for the second.
C1_DedupCollapse ==
    [][(/\ NextItem
        /\ PassedFilter(last)
        /\ PassedFilter(last')
        /\ SameCondition(last.ev, last'.ev)
        /\ last.wrote
        /\ Live(cache, now))
       => (last.invoked /\ ~last'.invoked /\ pc' = "Streaming")]_vars

\* two different events of one condition were delivered, the first notified
\* and the second not
C1_Witness ==
    /\ delivered = 2
    /\ PassedFilter(last)
    /\ ~last.invoked
    /\ lastNotified # last.ev
    /\ lastNotified.Message # last.ev.Message
    /\ SameCondition(lastNotified, last.ev)
    /\ lastSet.at >= 0

\* C2 - decision rule: for an event that passes the filter notifySlack is
\* called exactly when the cache reports absent or holds a value other than
\* the value the build caches for the event; and when the next item is read
\* after a call of notifySlack, the cache holds that event's value.
C2_DecisionRule ==
    [][NextItem =>
          /\ PassedFilter(last') =>
                (last'.invoked <=>
                    (\/ ~Live(cache, now)
                     \/ cache.Object # CachedValue(build, last'.ev)))
          /\ last.invoked =>
                (/\ last.wrote
                 /\ cache.present
                 /\ cache.Object = CachedValue(build, last.ev))]_vars

\* an event was notified because the cache held a live, different value, and
\* the cache now holds the event's value
C2_Witness ==
    /\ PassedFilter(last)
    /\ last.found
    /\ last.invoked
    /\ last.wrote
    /\ last.got # CachedValue(build, last.ev)
    /\ cache.Object = CachedValue(build, last.ev)
    /\ pc = "Streaming"

\* C3 - stale-event suppression: an event whose FirstTimestamp is not
\* strictly after the start time of the attempt that delivers it is never
\* reduced, never notified, and causes no cache read and no cache write.
C3_StaleSuppressed ==
    Stale(last) =>
        (/\ ~last.read
         /\ ~last.reduced
         /\ ~last.invoked
         /\ last.posts = 0
         /\ ~last.wrote
         /\ pc # "Notifying")

\* an event stamped exactly at the start time of a later attempt was
\* delivered
C3_Witness ==
    /\ Stale(last)
    /\ last.ts = last.start
    /\ last.start > 0
    /\ pc = "Streaming"

\* C4 - cache expiry: a read made after the last write's time plus the
\* time-to-live reports absent; a read made before that deadline reports the
\* written value as found.
C4_CacheExpiry ==
    [][(NextItem /\ last'.read /\ lastSet.at >= 0) =>
          /\ now > lastSet.at + DefaultExpiration => ~last'.found
          /\ now < lastSet.at + DefaultExpiration =>
                (last'.found /\ last'.got = lastSet.value)]_vars

\* an event of the condition written last was read after the deadline, found
\* nothing and is being notified again
C4_Witness ==
    /\ pc = "Notifying"
    /\ last.read
    /\ ~last.found
    /\ lastSet.at >= 0
    /\ now > lastSet.at + DefaultExpiration
    /\ CachedValue(build, last.ev) = lastSet.value

C6_OpenFailureRecoverable ==
    crash # "watch-open"

\* C7 - the watch loop never terminates voluntarily: the goroutine never
\* reaches a state it cannot leave.
C7_NeverTerminates ==
    pc # "Crashed"

\* C8 - a failed POST still marks the event handled: after a notification
\* whose POST failed the cache holds the event's fingerprint and one POST was
\* attempted; no event gets more than one POST; and a following accepted event
\* of the same condition, the item still live, is not notified.
C8_FailedPostHandled ==
    [][/\ last'.post = "failed" =>
              (/\ last'.wrote
               /\ last'.posts = 1
               /\ cache'.present
               /\ cache'.Object = buildCachedEvent(last'.ev))
       /\ last'.posts <= 1
       /\ (/\ NextItem
           /\ last.post = "failed"
           /\ PassedFilter(last')
           /\ SameCondition(last.ev, last'.ev)
           /\ Live(cache, now))
          => (~last'.invoked /\ notifications' = notifications)]_vars

\* the first event was notified with a failed POST and the second, another
\* event of the same condition, found its fingerprint and was not notified
C8_Witness ==
    /\ delivered = 2
    /\ notifications = 1
    /\ lastSet.post = "failed"
    /\ PassedFilter(last)
    /\ last.found
    /\ last.got = buildCachedEvent(last.ev)
    /\ ~last.invoked
    /\ lastNotified # last.ev

\* C9 - the notifier never raises: no outcome of building and sending the
\* request ends the process.
C9_NotifierNeverRaises ==
    crash # "nil-request"

\* C10 - last-notified invariant: between events a live cache item holds the
\* value of the event passed to notifySlack last, and the cache changes only
\* in the step that ends a notification, to that event's value.
C10_LastNotified ==
    [][/\ (pc' \in {"Subscribing", "Streaming", "Closed"}
              /\ Live(cache', now'))
          => cache'.Object = CachedValue(build, lastNotified')
       /\ cache' # cache =>
              (/\ pc = "Notifying"
               /\ last.invoked
               /\ cache'.Object = CachedValue(build, lastNotified))]_vars

\* three events were delivered and two notified, the third against a live
\* value of another event, and the cache holds the third's value
C10_Witness ==
    /\ delivered = 3
    /\ notifications = 2
    /\ pc = "Streaming"
    /\ PassedFilter(last)
    /\ last.found
    /\ last.invoked
    /\ last.wrote
    /\ last.got # cache.Object
    /\ lastNotified = last.ev
    /\ Live(cache, now)
    /\ cache.Object = CachedValue(build, last.ev)

\* "payments-api"
PaymentsApi ==
    <<"p","a","y","m","e","n","t","s","-","a","p","i">>
\* "payments"
Payments ==
    <<"p","a","y","m","e","n","t","s">>

\* the second of the three components of a fingerprint whose namespace has no
\* underscore
PrefixComponent(fingerprint) ==
    Split(fingerprint, Underscore)[2]

\* the cache holds the fingerprint written for the last item, an event of
\* the subject payments-api-7d8f9c-xk2pq
PaymentsCached ==
    /\ build = "reducer"
    /\ last.kind = "event"
    /\ last.ev.Name = NamePayments
    /\ last.wrote
    /\ cache.present

\* C11 as stated - workload-prefix extraction: for the subject name
\* payments-api-7d8f9c-xk2pq the prefix component of the fingerprint is
\* payments-api.
C11_PrefixIsWorkloadName ==
    PaymentsCached => PrefixComponent(cache.Object) = PaymentsApi

\* C11 as amended: for the subject name payments-api-7d8f9c-xk2pq the prefix
\* component of the fingerprint is payments, the part of the name before its
\* first hyphen.
C11_PrefixIsFirstSegment ==
    PaymentsCached =>
        (/\ PrefixComponent(cache.Object) = Payments
         /\ cache.Object =
               Join(<<last.ev.Namespace, Payments, last.ev.Message>>,
                    Underscore))

\* an event of payments-api-7d8f9c-xk2pq was notified and its fingerprint
\* cached
C11_Witness ==
    /\ PaymentsCached
    /\ pc = "Streaming"
    /\ lastNotified.Name = NamePayments
    /\ lastSet.value = cache.Object

\* two health-check events of one workload whose messages hold the marker
\* and are equal up to it
SameProbe(e1, e2) ==
    /\ e1.Namespace = e2.Namespace
    /\ FirstSegment(e1.Name) = FirstSegment(e2.Name)
    /\ IsHealthCheck(e1.Message)
    /\ IsHealthCheck(e2.Message)
    /\ Index(e1.Message, GetMarker) > 0
    /\ Index(e2.Message, GetMarker) > 0
    /\ BeforeMarker(e1.Message) = BeforeMarker(e2.Message)

\* this step delivers an accepted probe event right after an accepted probe
\* event of the same workload, equal up to the marker and different after it
ProbePair ==
    /\ NextItem
    /\ PassedFilter(last)
    /\ PassedFilter(last')
    /\ SameProbe(last.ev, last'.ev)
    /\ last.ev.Message # last'.ev.Message

\* C12 as stated - health-check truncation: two such events have the same
\* fingerprint, and the second of two consecutive accepted ones is not
\* notified.
C12_ProbeNeverRenotified ==
    [][ProbePair =>
          (/\ buildCachedEvent(last.ev) = buildCachedEvent(last'.ev)
           /\ ~last'.invoked)]_vars

\* C12 as amended: two such events have the same fingerprint, and the second
\* of two consecutive accepted ones is not notified while the cache item left
\* by the first is live; once it has expired the second is notified.
C12_ProbeTruncation ==
    [][ProbePair =>
          (/\ buildCachedEvent(last.ev) = buildCachedEvent(last'.ev)
           /\ cache.present
           /\ cache.Object = buildCachedEvent(last.ev)
           /\ Live(cache, now) => ~last'.invoked
           /\ ~Live(cache, now) => last'.invoked)]_vars

\* two probe failures of one workload with different addresses were
\* delivered, the first notified, the second found its fingerprint cached
C12_Witness ==
    /\ delivered = 2
    /\ notifications = 1
    /\ PassedFilter(last)
    /\ IsHealthCheck(last.ev.Message)
    /\ SameProbe(lastNotified, last.ev)
    /\ lastNotified.Message # last.ev.Message
    /\ last.found
    /\ last.got = buildCachedEvent(last.ev)
    /\ ~last.invoked

\* C13 - no-action frame: handling an accepted event whose fingerprint is the
\* live cached value, or an event the start-time filter rejects, leaves the
\* cache item, its expiration included, as it is and calls notifySlack for
\* nothing.
C13_NoActionFrame ==
    [][(/\ NextItem
        /\ \/ Stale(last')
           \/ /\ PassedFilter(last')
              /\ Live(cache, now)
              /\ cache.Object = buildCachedEvent(last'.ev))
       => (/\ cache' = cache
           /\ ~last'.invoked
           /\ notifications' = notifications
           /\ lastNotified' = lastNotified
           /\ pc' = "Streaming")]_vars

\* an accepted event found its fingerprint in a cache item written at an
\* earlier time, and the item still expires when it did
C13_Witness ==
    /\ pc = "Streaming"
    /\ PassedFilter(last)
    /\ last.found
    /\ last.got = buildCachedEvent(last.ev)
    /\ ~last.invoked
    /\ lastSet.at >= 0
    /\ now > lastSet.at
    /\ Live(cache, now)
    /\ cache.Expiration = lastSet.at + DefaultExpiration

\* C14 - stream failure is recoverable: an item of the feed that is no event
\* record does not end the process.
C14_StreamFailureRecoverable ==
    crash # "not-an-event"

\* C15 - single-slot dedup: an accepted event whose fingerprint differs from
\* that of the accepted event delivered just before it is notified, whatever
\* was notified earlier, and so is an accepted first event; each such step
\* adds one notification, so that of a sequence alternating between two
\* fingerprints every event is notified.
C15_AlternationNotifiesAll ==
    [][(/\ NextItem
        /\ PassedFilter(last')
        /\ \/ last.kind = "none"
           \/ /\ PassedFilter(last)
              /\ buildCachedEvent(last.ev) # buildCachedEvent(last'.ev))
       => (/\ last'.invoked
           /\ lastNotified' = last'.ev
           /\ notifications' = notifications + 1)]_vars

\* three events A, B, A were delivered and each was notified: the second
\* found A's fingerprint, the third found B's and has A's again
C15_Witness ==
    /\ delivered = 3
    /\ notifications = 3
    /\ PassedFilter(last)
    /\ last.found
    /\ last.again
    /\ last.got # buildCachedEvent(last.ev)
    /\ last.invoked
    /\ last.wrote
    /\ pc = "Streaming"

\* C16 - sequential, in-order handling: an item is taken only while no
\* notification is in progress, and a notification started for the item
\* before it has by then made its one POST attempt and written the cache;
\* notifySlack is called only in the step that delivers an event, for that
\* event, so the notifications follow the order of delivery; an attempt is
\* started only when none is running.
C16_Sequential ==
    [][/\ NextItem =>
              (/\ pc = "Streaming"
               /\ cur = NoEvent
               /\ last.invoked => (last.posts = 1 /\ last.wrote))
       /\ notifications' # notifications =>
              (/\ NextItem
               /\ notifications' = notifications + 1
               /\ last'.invoked
               /\ lastNotified' = last'.ev
               /\ cur' = last'.ev
               /\ pc' = "Notifying")
       /\ lastNotified' # lastNotified => notifications' # notifications
       /\ startTime' # startTime => (pc = "Subscribing" /\ cur = NoEvent)
       /\ notifications' <= delivered']_vars

\* two events were delivered and notified in turn: the second read, live,
\* the value the first had written, and has made its POST and its write
C16_Witness ==
    /\ delivered = 2
    /\ notifications = 2
    /\ pc = "Streaming"
    /\ cur = NoEvent
    /\ PassedFilter(last)
    /\ last.found
    /\ last.invoked
    /\ last.posts = 1
    /\ last.wrote
    /\ lastNotified = last.ev
    /\ last.got # lastSet.value
    /\ lastSet.value = buildCachedEvent(last.ev)

\* C17 - re-notification after expiry: an accepted event whose fingerprint is
\* the one written last is not notified up to the expiration of that write
\* and is notified once the clock is past it; so a second notification of an
\* unchanged fingerprint comes more than a time-to-live after the write of the
\* first.
C17_RenotifiedAfterExpiry ==
    [][(/\ NextItem
        /\ PassedFilter(last')
        /\ lastSet.at >= 0
        /\ lastSet.value = buildCachedEvent(last'.ev))
       => (/\ now <= lastSet.at + DefaultExpiration => ~last'.invoked
           /\ now > lastSet.at + DefaultExpiration => last'.invoked
           /\ last'.invoked <=> ~last'.found)]_vars

\* of three delivered events two were notified: the third has the fingerprint
\* written last, arrived after its expiration and is notified again
C17_Witness ==
    /\ delivered = 3
    /\ notifications = 2
    /\ pc = "Notifying"
    /\ PassedFilter(last)
    /\ ~last.found
    /\ last.invoked
    /\ lastSet.at >= 0
    /\ lastSet.value = buildCachedEvent(last.ev)
    /\ now > lastSet.at + DefaultExpiration
    /\ closedAt = -1

\* C18 - events that occur while nothing streams are lost: an event stamped
\* at or before the start time of the attempt that delivers it is not
\* notified; start times never go back and an attempt after a close starts
\* after the close, so no later attempt notifies it either.
C18_MissedEventsLost ==
    [][/\ (NextItem /\ last'.kind = "event" /\ last'.ts <= startTime) =>
              (/\ ~last'.read
               /\ notifications' = notifications
               /\ lastNotified' = lastNotified)
       /\ startTime' >= startTime
       /\ (pc = "Subscribing" /\ pc' # "Subscribing" /\ closedAt >= 0) =>
              startTime' > closedAt]_vars

\* the first item ever delivered is an event stamped in the sleep after a
\* close, before the second attempt started, and it was not notified
C18_Witness ==
    /\ delivered = 1
    /\ notifications = 0
    /\ last.kind = "event"
    /\ closedAt >= 0
    /\ last.ts >= closedAt
    /\ last.ts < last.start
    /\ last.start = startTime
    /\ ~last.read
    /\ pc = "Streaming"

\* C19 - the cache survives reconnects: the steps of closing, sleeping and
\* subscribing leave the cache item as it is, and an accepted event whose
\* fingerprint is the live value written before the running attempt started
\* is not notified.
C19_CacheSurvivesReconnect ==
    [][/\ (pc' # pc /\ {pc, pc'} \subseteq
                          {"Streaming", "Closed", "Subscribing"}) =>
              cache' = cache
       /\ (/\ NextItem
           /\ PassedFilter(last')
           /\ lastSet.at >= 0
           /\ lastSet.at <= closedAt
           /\ closedAt < startTime
           /\ Live(cache, now)
           /\ cache.Object = buildCachedEvent(last'.ev))
          => (~last'.invoked /\ cache' = cache)]_vars

\* the event of the first attempt was notified; after a close and a new
\* attempt another event of the same condition found the value and was not
\* notified
C19_Witness ==
    /\ delivered = 2
    /\ notifications = 1
    /\ lastSet.at >= 0
    /\ lastSet.at <= closedAt
    /\ closedAt < startTime
    /\ last.start = startTime
    /\ PassedFilter(last)
    /\ last.found
    /\ last.got = buildCachedEvent(last.ev)
    /\ ~last.invoked
    /\ lastNotified # last.ev
=============================================================================
